---- MODULE Spec2Model ----
(***************************************************************************)
(* Model of the assistant bot of src/HW7.1.py: an in-memory address book   *)
(* (names, phones, birthdays) driven by a read-parse-dispatch-print loop.  *)
(*                                                                         *)
(* Python values are modelled as follows.                                  *)
(*   str        a TLA+ string (Len, \o and SubSeq work on strings in TLC)   *)
(*   list       a sequence                                                 *)
(*   dict       a sequence of entries in insertion order                   *)
(*   datetime   a record [year, month, day, sec]; sec is the time of day   *)
(*   a call     a record [exc, val, book]: exc = "" and val the returned   *)
(*              value, or exc the raised exception's type and val its      *)
(*              message; book is the address book after the call           *)
(***************************************************************************)
EXTENDS Integers, Sequences, FiniteSets, TLC

VARIABLES
    book,     \* main's AddressBook: book.records, a dict in insertion order
    pc,       \* main's position: "loop", "exited" (break), "crashed" (uncaught exception)
    line,     \* the line the last input() returned
    out,      \* the last string printed to standard output
    exc,      \* the type of the exception that left main, "" if none
    today,    \* datetime.today() as read by the get_upcoming_birthdays call of the last turn
    addLog,   \* history: per name, the phones its successful add commands gave
    firstAdded \* history: the names in the order in which each first had a record

vars == <<book, pc, line, out, exc, today, addLog, firstAdded>>

----------------------------------------------------------------------------
(* Bounds of the model. *)

\* The longest phone list a record is let to grow to.
MaxPhones == 2

----------------------------------------------------------------------------
(* Strings. *)

CharAt(s, i) == SubSeq(s, i, i)

AsciiDigits == {"0", "1", "2", "3", "4", "5", "6", "7", "8", "9"}

\* Characters outside 0-9 for which str.isdigit() is true as well (Unicode
\* Numeric_Type Digit or Decimal); superscript two stands for them.
OtherUnicodeDigits == {"²"}

\* str.isspace() on the characters the input lines use.
IsSpace(c) == c \in {" ", "\t"}

\* str.isdigit(): non-empty and every character a Unicode digit.
IsDigit(s) ==
    /\ Len(s) > 0
    /\ \A i \in 1..Len(s) : CharAt(s, i) \in AsciiDigits \cup OtherUnicodeDigits

UpperLetters == "ABCDEFGHIJKLMNOPQRSTUVWXYZ"
LowerLetters == "abcdefghijklmnopqrstuvwxyz"

LowerChar(c) ==
    IF \E i \in 1..26 : CharAt(UpperLetters, i) = c
    THEN CharAt(LowerLetters, CHOOSE i \in 1..26 : CharAt(UpperLetters, i) = c)
    ELSE c

RECURSIVE Lower(_)
\* str.lower()
Lower(s) == IF s = "" THEN "" ELSE LowerChar(CharAt(s, 1)) \o Lower(SubSeq(s, 2, Len(s)))

RECURSIVE SplitFrom(_, _, _, _)
SplitFrom(s, i, cur, acc) ==
    IF i > Len(s)
    THEN IF cur = "" THEN acc ELSE Append(acc, cur)
    ELSE IF IsSpace(CharAt(s, i))
         THEN SplitFrom(s, i + 1, "", IF cur = "" THEN acc ELSE Append(acc, cur))
         ELSE SplitFrom(s, i + 1, cur \o CharAt(s, i), acc)

\* str.strip().split(): the maximal runs of non-whitespace characters, in order.
Split(s) == SplitFrom(s, 1, "", <<>>)

RECURSIVE Join(_, _)
\* sep.join(parts)
Join(sep, parts) ==
    IF Len(parts) = 0 THEN ""
    ELSE IF Len(parts) = 1 THEN parts[1]
    ELSE parts[1] \o sep \o Join(sep, Tail(parts))

DigitVal(c) == CHOOSE i \in 0..9 : CharAt("0123456789", i + 1) = c
DigitChar(n) == CharAt("0123456789", n + 1)

\* int() of a string of ASCII digits.
RECURSIVE ToInt(_)
ToInt(s) ==
    IF s = "" THEN 0
    ELSE 10 * ToInt(SubSeq(s, 1, Len(s) - 1)) + DigitVal(CharAt(s, Len(s)))

RECURSIVE ToStr(_)
\* The decimal digits of a natural number, no padding.
ToStr(n) == IF n < 10 THEN DigitChar(n) ELSE ToStr(n \div 10) \o DigitChar(n % 10)

RECURSIVE ZeroPad(_, _)
ZeroPad(s, width) == IF Len(s) >= width THEN s ELSE ZeroPad("0" \o s, width)

----------------------------------------------------------------------------
(* Calls and their outcomes. *)

\* A constructor or method that returned v / that raised e(msg).
Ok(v) == [exc |-> "", val |-> v]
Err(e, msg) == [exc |-> e, val |-> msg]

\* A handler that returned v / that raised e(msg), leaving the records as b.
Return(v, b) == [exc |-> "", val |-> v, book |-> b]
Raise(e, msg, b) == [exc |-> e, val |-> msg, book |-> b]

----------------------------------------------------------------------------
(* datetime. *)

\* The value of Record.birthday before any birthday is set. No datetime has
\* year 0 (datetime.MINYEAR is 1).
None == [year |-> 0, month |-> 0, day |-> 0, sec |-> 0]

MINYEAR == 1

\* Mutant: every fourth year is a leap year.
IsLeap_every_fourth(y) == y % 4 = 0

IsLeap(y) == y % 4 = 0 /\ (y % 100 # 0 \/ y % 400 = 0)

DaysInMonth(y, m) ==
    IF m = 2 THEN (IF IsLeap(y) THEN 29 ELSE 28)
    ELSE IF m \in {4, 6, 9, 11} THEN 30 ELSE 31

DaysBeforeYear(y) == (y - 1) * 365 + (y - 1) \div 4 - (y - 1) \div 100 + (y - 1) \div 400

RECURSIVE DaysBeforeMonth(_, _)
DaysBeforeMonth(y, m) ==
    IF m = 1 THEN 0 ELSE DaysBeforeMonth(y, m - 1) + DaysInMonth(y, m - 1)

\* datetime.toordinal(): the day's number, 1 for 01.01.0001.
ToOrdinal(d) == DaysBeforeYear(d.year) + DaysBeforeMonth(d.year, d.month) + d.day

\* a <= b on datetimes: by day, then by time of day.
DtLe(a, b) ==
    \/ ToOrdinal(a) < ToOrdinal(b)
    \/ ToOrdinal(a) = ToOrdinal(b) /\ a.sec <= b.sec

\* a <= b + timedelta(days=n): the time of day of b is kept.
DtLePlusDays(a, b, n) ==
    \/ ToOrdinal(a) < ToOrdinal(b) + n
    \/ ToOrdinal(a) = ToOrdinal(b) + n /\ a.sec <= b.sec

NonZeroDigits == AsciiDigits \ {"0"}

\* The regular expression strptime builds for %d: 3[0-1]|[1-2]\d|0[1-9]|[1-9]| [1-9].
\* (\d is [0-9] on the characters of this model: superscript two is no decimal.)
MatchD(t) ==
    \/ /\ Len(t) = 2
       /\ \/ CharAt(t, 1) = "3" /\ CharAt(t, 2) \in {"0", "1"}
          \/ CharAt(t, 1) \in {"1", "2"} /\ CharAt(t, 2) \in AsciiDigits
          \/ CharAt(t, 1) = "0" /\ CharAt(t, 2) \in NonZeroDigits
          \/ CharAt(t, 1) = " " /\ CharAt(t, 2) \in NonZeroDigits
    \/ Len(t) = 1 /\ t \in NonZeroDigits

\* For %m: 1[0-2]|0[1-9]|[1-9].
MatchM(t) ==
    \/ /\ Len(t) = 2
       /\ \/ CharAt(t, 1) = "1" /\ CharAt(t, 2) \in {"0", "1", "2"}
          \/ CharAt(t, 1) = "0" /\ CharAt(t, 2) \in NonZeroDigits
    \/ Len(t) = 1 /\ t \in NonZeroDigits

\* For %Y: \d\d\d\d.
MatchY(t) == Len(t) = 4 /\ \A i \in 1..4 : CharAt(t, i) \in AsciiDigits

\* The ways the pattern (%d)\.(%m)\.(%Y) matches a prefix of s: the lengths of
\* the day and of the month. The dots fix them, so there is at most one.
Matches(s) ==
    { k \in {1, 2} \X {1, 2} :
        /\ Len(s) >= k[1] + k[2] + 6
        /\ MatchD(SubSeq(s, 1, k[1]))
        /\ CharAt(s, k[1] + 1) = "."
        /\ MatchM(SubSeq(s, k[1] + 2, k[1] + 1 + k[2]))
        /\ CharAt(s, k[1] + k[2] + 2) = "."
        /\ MatchY(SubSeq(s, k[1] + k[2] + 3, k[1] + k[2] + 6)) }

\* datetime.strptime(s, '%d.%m.%Y')
strptime(s) ==
    IF Matches(s) = {}
    THEN Err("ValueError", "time data '" \o s \o "' does not match format '%d.%m.%Y'")
    ELSE LET k == CHOOSE m \in Matches(s) : TRUE
             d == ToInt(SubSeq(s, 1, k[1]))
             m == ToInt(SubSeq(s, k[1] + 2, k[1] + 1 + k[2]))
             y == ToInt(SubSeq(s, k[1] + k[2] + 3, k[1] + k[2] + 6))
         IN IF Len(s) # k[1] + k[2] + 6
            THEN Err("ValueError", "unconverted data remains: "
                                      \o SubSeq(s, k[1] + k[2] + 7, Len(s)))
            ELSE IF y < MINYEAR
            THEN Err("ValueError", "year " \o ToStr(y) \o " is out of range")
            ELSE IF d > DaysInMonth(y, m)
            THEN Err("ValueError", "day is out of range for month")
            ELSE Ok([year |-> y, month |-> m, day |-> d, sec |-> 0])

\* d.strftime('%d.%m.%Y'). The C library formats %Y: glibc prints a year
\* below 1000 without leading zeros, other platforms pad it to four digits.
strftime(d, pad) ==
    ZeroPad(ToStr(d.day), 2) \o "." \o ZeroPad(ToStr(d.month), 2) \o "."
        \o (IF pad THEN ZeroPad(ToStr(d.year), 4) ELSE ToStr(d.year))

\* d.replace(year=y)
replace_year(d, y) ==
    IF d.day > DaysInMonth(y, d.month)
    THEN Err("ValueError", "day is out of range for month")
    ELSE Ok([d EXCEPT !.year = y])

----------------------------------------------------------------------------
(* Field types. *)

\* Phone(value): the stored value, or ValueError.
Phone(value) ==
    IF ~IsDigit(value) \/ Len(value) # 10
    THEN Err("ValueError", "Phone number must be 10 digits.")
    ELSE Ok(value)

\* Birthday(value): the parsed datetime, or ValueError.
Birthday(value) ==
    LET parsed == strptime(value)
    IN IF parsed.exc = "ValueError"
       THEN Err("ValueError", "Invalid date format. Use DD.MM.YYYY")
       ELSE parsed

----------------------------------------------------------------------------
(* Parsing of the input. *)

\* parse_input that keeps the command as it was typed.
parse_input_as_typed(user_input) ==
    LET parts == Split(user_input)
    IN [command |-> IF Len(parts) > 0 THEN parts[1] ELSE "",
        args |-> IF Len(parts) > 1 THEN Tail(parts) ELSE <<>>]

parse_input(user_input) ==
    LET parts == Split(user_input)
    IN [command |-> IF Len(parts) > 0 THEN Lower(parts[1]) ELSE "",
        args |-> IF Len(parts) > 1 THEN Tail(parts) ELSE <<>>]

----------------------------------------------------------------------------
(* The input lines and the clock readings the model draws from. Each       *)
(* specification reads its own lines: Spec exercises the phone commands,   *)
(* SpecB the birthday listing, SpecD the validation of birthdays.          *)

Names == {"Alice", "Bob"}

GoodPhones == {"1111111111", "2222222222"}

\* Phone arguments the validation is to refuse: too short, too long, letters.
BadPhones == {"12345", "12345678901", "12345abcde"}

\* Ten superscript digits.
SuperPhone == "²²²²²²²²²²"

\* Lines with too few arguments, unknown commands, empty lines, other letter
\* cases and spacing, close and exit.
OddLines ==
    {"", "hello", "foo", "all", "Birthdays soon",
     "add", "add Alice", "change", "change Alice", "change Bob 1111111111",
     "phone", "add-birthday", "add-birthday Bob", "show-birthday",
     "  ADD" \o "\t" \o "Bob   2222222222  ", "close", "EXIT now"}

Lines ==
    OddLines
    \cup {"add " \o n \o " " \o p : n \in Names, p \in GoodPhones \cup BadPhones}
    \cup {"change " \o n \o " " \o o \o " " \o p :
             n \in Names, o \in GoodPhones, p \in GoodPhones \cup {"12345"}}
    \cup {"phone " \o n : n \in Names}
    \cup {"add-birthday Bob 29.02.2023"}
    \cup {"show-birthday " \o n : n \in Names}

Clock ==
    {[year |-> 2024, month |-> 6, day |-> 10, sec |-> 52200]}

\* Birthdays of SpecB: the day before 10.06, that day, 7 and 8 days after it,
\* the second of January, the 29th of February.
ListedDates ==
    {"09.06.1990", "10.06.1990", "17.06.1990", "18.06.1990", "02.01.1990", "29.02.2024"}

LinesB ==
    {"", "hello", "all", "birthdays", "exit",
     "add Alice 1111111111", "add Bob 1111111111",
     "change Alice 1111111111 1111111111", "phone Alice", "show-birthday Bob"}
    \cup {"add-birthday " \o n \o " " \o b : n \in Names, b \in ListedDates}

\* 10.06.2024 at midnight, in the afternoon and a second before midnight, the
\* end of a leap year, June of a common year.
ClockB ==
    {[year |-> 2024, month |-> 6, day |-> 10, sec |-> 0],
     [year |-> 2024, month |-> 6, day |-> 10, sec |-> 52200],
     [year |-> 2024, month |-> 6, day |-> 10, sec |-> 86399],
     [year |-> 2024, month |-> 12, day |-> 29, sec |-> 52200],
     [year |-> 2023, month |-> 6, day |-> 10, sec |-> 52200]}

\* Birthday arguments of SpecD that strptime accepts,
GoodDates ==
    {"15.06.1990", "29.02.2024", "29.02.2000", "31.12.9999", "01.01.0001", "15.06.0990",
     "1.6.1990"}
\* and those it refuses.
BadDates ==
    {"29.02.2023", "29.02.1900", "31.04.2024", "30.02.2024", "32.01.2024", "00.01.2024",
     "15.13.2024", "15.00.2024", "01.01.0000", "15.06.90", "15-06-1990", "15.06.19900",
     "1O.06.1990"}

LinesD ==
    {"", "hello", "all", "birthdays", "exit",
     "add Alice 1111111111", "add Bob " \o SuperPhone,
     "change Alice 1111111111 1111111111", "phone Bob", "add-birthday Alice",
     "add-birthday Bob 15.06.1990", "add-birthday Bob 29.02.2023"}
    \cup {"add-birthday Alice " \o b : b \in GoodDates \cup BadDates}
    \cup {"show-birthday " \o n : n \in Names}

ClockD ==
    {[year |-> 2024, month |-> 6, day |-> 10, sec |-> 52200]}

AllLines == Lines \cup LinesB \cup LinesD

\* parse_input of every line, computed once (@@ makes TLC tabulate the function).
Parsed == [l \in AllLines |-> parse_input(l)] @@ <<>>

Command(l) == Parsed[l].command
Args(l) == Parsed[l].args

\* The argument tokens of the lines.
Tokens == UNION {{Args(l)[i] : i \in 1..Len(Args(l))} : l \in AllLines}

\* Phone and Birthday of every token, computed once.
PhoneOf == [v \in Tokens |-> Phone(v)] @@ <<>>
BirthdayOf == [v \in Tokens |-> Birthday(v)] @@ <<>>

----------------------------------------------------------------------------
(* Record. A method gives [exc, val, rec]: rec is the record after the call. *)
(* Record_add_birthday is Record.add_birthday (add_birthday is the handler). *)

Record(name) == [name |-> name, phones |-> <<>>, birthday |-> None]

\* Mutant: a phone the record already has is not appended again.
add_phone_once(rec, phone) ==
    LET p == PhoneOf[phone]
    IN IF p.exc # ""
       THEN [exc |-> p.exc, val |-> p.val, rec |-> rec]
       ELSE [exc |-> "", val |-> "",
             rec |-> IF \E i \in 1..Len(rec.phones) : rec.phones[i] = p.val
                     THEN rec ELSE [rec EXCEPT !.phones = Append(@, p.val)]]

add_phone(rec, phone) ==
    LET p == PhoneOf[phone]
    IN IF p.exc # ""
       THEN [exc |-> p.exc, val |-> p.val, rec |-> rec]
       ELSE [exc |-> "", val |-> "", rec |-> [rec EXCEPT !.phones = Append(@, p.val)]]

RECURSIVE DropFirst(_, _)
DropFirst(seq, x) ==
    IF seq = <<>> THEN <<>>
    ELSE IF Head(seq) = x THEN Tail(seq)
    ELSE <<Head(seq)>> \o DropFirst(Tail(seq), x)

\* Mutant: only the first entry equal to phone is removed (list.remove).
remove_phone_first(rec, phone) == [rec EXCEPT !.phones = DropFirst(@, phone)]

remove_phone(rec, phone) ==
    [rec EXCEPT !.phones = SelectSeq(@, LAMBDA p : p # phone)]

\* Record.add_birthday building the record anew around the birthday.
Record_add_birthday_anew(rec, birthday) ==
    LET b == BirthdayOf[birthday]
    IN IF b.exc # ""
       THEN [exc |-> b.exc, val |-> b.val, rec |-> rec]
       ELSE [exc |-> "", val |-> "", rec |-> [Record(rec.name) EXCEPT !.birthday = b.val]]

Record_add_birthday(rec, birthday) ==
    LET b == BirthdayOf[birthday]
    IN IF b.exc # ""
       THEN [exc |-> b.exc, val |-> b.val, rec |-> rec]
       ELSE [exc |-> "", val |-> "", rec |-> [rec EXCEPT !.birthday = b.val]]

----------------------------------------------------------------------------
(* AddressBook. records is the dict: a sequence of [key, rec] in the order *)
(* the keys were inserted.                                                 *)

KeyIndex(records, name) ==
    IF \E i \in 1..Len(records) : records[i].key = name
    THEN CHOOSE i \in 1..Len(records) : records[i].key = name
    ELSE 0

\* self.records[record.name.value] = record
add_record(records, rec) ==
    IF KeyIndex(records, rec.name) # 0
    THEN [records EXCEPT ![KeyIndex(records, rec.name)].rec = rec]
    ELSE Append(records, [key |-> rec.name, rec |-> rec])

\* A lookup that sees only the key inserted last.
find_newest(records, name) ==
    IF Len(records) > 0 /\ records[Len(records)].key = name THEN Len(records) ELSE 0

\* self.records.get(name, None): the place of the record found in the dict (the
\* caller changes that very object), 0 for None.
find(records, name) == KeyIndex(records, name)

RECURSIVE UpcomingFrom_rolling(_, _, _, _, _)
\* The loop taking the occurrence in the next year once this year's has passed.
UpcomingFrom_rolling(records, i, now, pad, acc) ==
    IF i > Len(records) THEN Ok(acc)
    ELSE IF records[i].rec.birthday = None
    THEN UpcomingFrom_rolling(records, i + 1, now, pad, acc)
    ELSE LET here == replace_year(records[i].rec.birthday, now.year)
             this == IF here.exc = "" /\ ~DtLe(now, here.val)
                     THEN replace_year(records[i].rec.birthday, now.year + 1)
                     ELSE here
         IN IF this.exc # "" THEN this
            ELSE IF DtLe(now, this.val) /\ DtLePlusDays(this.val, now, 7)
            THEN UpcomingFrom_rolling(records, i + 1, now, pad,
                     Append(acc, [name |-> records[i].rec.name,
                                  birthday |-> strftime(this.val, pad)]))
            ELSE UpcomingFrom_rolling(records, i + 1, now, pad, acc)

RECURSIVE UpcomingFrom(_, _, _, _, _)
\* The loop of get_upcoming_birthdays from record i on; acc is upcoming_birthdays.
UpcomingFrom(records, i, now, pad, acc) ==
    IF i > Len(records) THEN Ok(acc)
    ELSE IF records[i].rec.birthday = None
    THEN UpcomingFrom(records, i + 1, now, pad, acc)
    ELSE LET this == replace_year(records[i].rec.birthday, now.year)
         IN IF this.exc # "" THEN this
            ELSE IF DtLe(now, this.val) /\ DtLePlusDays(this.val, now, 7)
            THEN UpcomingFrom(records, i + 1, now, pad,
                     Append(acc, [name |-> records[i].rec.name,
                                  birthday |-> strftime(this.val, pad)]))
            ELSE UpcomingFrom(records, i + 1, now, pad, acc)

\* get_upcoming_birthdays going through the records from the newest key back.
get_upcoming_birthdays_newest_first(records, now, pad) ==
    UpcomingFrom([i \in 1..Len(records) |-> records[Len(records) + 1 - i]], 1, now, pad, <<>>)

\* get_upcoming_birthdays with datetime.today() = now.
get_upcoming_birthdays(records, now, pad) == UpcomingFrom(records, 1, now, pad, <<>>)

----------------------------------------------------------------------------
(* Command handlers, before decoration: (args, book.records) to a call's   *)
(* outcome. A method called on None raises AttributeError.                 *)

\* Mutant: a new Record is stored on every call, also over an existing one.
add_contact_fresh(args, records) ==
    IF Len(args) < 2
    THEN Raise("IndexError", "Not enough arguments. Usage: add [name] [phone]", records)
    ELSE LET name == args[1]
             phone == args[2]
             found == find(records, name)
             stored == add_record(records, Record(name))
             at == KeyIndex(stored, name)
             message == IF found = 0 THEN "Contact added." ELSE "Contact updated."
             added == add_phone(stored[at].rec, phone)
         IN IF phone = "" THEN Return(message, stored)
            ELSE IF added.exc # "" THEN Raise(added.exc, added.val, stored)
            ELSE Return(message, [stored EXCEPT ![at].rec = added.rec])

add_contact(args, records) ==
    IF Len(args) < 2
    THEN Raise("IndexError", "Not enough arguments. Usage: add [name] [phone]", records)
    ELSE LET name == args[1]
             phone == args[2]
             found == find(records, name)
             stored == IF found = 0 THEN add_record(records, Record(name)) ELSE records
             at == IF found = 0 THEN KeyIndex(stored, name) ELSE found
             message == IF found = 0 THEN "Contact added." ELSE "Contact updated."
             added == add_phone(stored[at].rec, phone)
         IN IF phone = "" THEN Return(message, stored)
            ELSE IF added.exc # "" THEN Raise(added.exc, added.val, stored)
            ELSE Return(message, [stored EXCEPT ![at].rec = added.rec])

\* Mutant: the record is looked up and the old phone removed before the
\* arguments are counted.
change_phone_find_first(args, records) ==
    IF Len(args) < 2
    THEN Raise("IndexError",
               "Not enough arguments. Usage: change [name] [old_phone] [new_phone]", records)
    ELSE LET at == find(records, args[1])
             removed == remove_phone(records[at].rec, args[2])
             added == add_phone(removed, args[3])
             after == [records EXCEPT ![at].rec = added.rec]
         IN IF at = 0
            THEN Raise("AttributeError",
                       "'NoneType' object has no attribute 'remove_phone'", records)
            ELSE IF Len(args) < 3
            THEN Raise("IndexError",
                       "Not enough arguments. Usage: change [name] [old_phone] [new_phone]",
                       [records EXCEPT ![at].rec = removed])
            ELSE IF added.exc # "" THEN Raise(added.exc, added.val, after)
            ELSE Return("Phone number updated.", after)

change_phone(args, records) ==
    IF Len(args) < 3
    THEN Raise("IndexError",
               "Not enough arguments. Usage: change [name] [old_phone] [new_phone]", records)
    ELSE LET name == args[1]
             old_phone == args[2]
             new_phone == args[3]
             at == find(records, name)
             removed == remove_phone(records[at].rec, old_phone)
             added == add_phone(removed, new_phone)
             after == [records EXCEPT ![at].rec = added.rec]
         IN IF at = 0
            THEN Raise("AttributeError",
                       "'NoneType' object has no attribute 'remove_phone'", records)
            ELSE IF added.exc # "" THEN Raise(added.exc, added.val, after)
            ELSE Return("Phone number updated.", after)

show_phones(args, records) ==
    IF Len(args) < 1
    THEN Raise("IndexError", "Not enough arguments. Usage: phone [name]", records)
    ELSE LET at == find(records, args[1])
         IN IF at = 0
            THEN Raise("AttributeError",
                       "'NoneType' object has no attribute 'phones'", records)
            ELSE Return(Join(", ", records[at].rec.phones), records)

show_all(args, records) ==
    Return(Join("\n", [i \in 1..Len(records) |->
                          records[i].key \o ": " \o Join(", ", records[i].rec.phones)]),
           records)

add_birthday(args, records) ==
    IF Len(args) < 2
    THEN Raise("IndexError",
               "Not enough arguments. Usage: add-birthday [name] [birthday]", records)
    ELSE LET at == find(records, args[1])
             set == Record_add_birthday(records[at].rec, args[2])
         IN IF at = 0
            THEN Raise("AttributeError",
                       "'NoneType' object has no attribute 'add_birthday'", records)
            ELSE IF set.exc # "" THEN Raise(set.exc, set.val, records)
            ELSE Return("Birthday added.", [records EXCEPT ![at].rec = set.rec])

show_birthday(args, records, pad) ==
    IF Len(args) < 1
    THEN Raise("IndexError", "Not enough arguments. Usage: show-birthday [name]", records)
    ELSE LET at == find(records, args[1])
         IN IF at = 0
            THEN Raise("AttributeError",
                       "'NoneType' object has no attribute 'birthday'", records)
            ELSE IF records[at].rec.birthday # None
            THEN Return(strftime(records[at].rec.birthday, pad), records)
            ELSE Return("No birthday set.", records)

birthdays(args, records, now, pad) ==
    LET upcoming == get_upcoming_birthdays(records, now, pad)
    IN IF upcoming.exc # "" THEN Raise(upcoming.exc, upcoming.val, records)
       ELSE IF Len(upcoming.val) > 0
       THEN Return(Join("\n", [i \in 1..Len(upcoming.val) |->
                       upcoming.val[i].name \o " - " \o upcoming.val[i].birthday]),
                   records)
       ELSE Return("No upcoming birthdays.", records)

\* The decorator: what wrapper gives for the outcome r of func(*args, **kwargs).
input_error(r) ==
    IF r.exc = "ValueError" THEN Return(r.val, r.book)
    ELSE IF r.exc = "IndexError" THEN Return("Insufficient arguments provided.", r.book)
    ELSE IF r.exc = "KeyError" THEN Return("Contact not found.", r.book)
    ELSE r

----------------------------------------------------------------------------
(* History: what the successful add commands gave each name.               *)

Fresh == [pure |-> TRUE, seq |-> <<>>]

\* The log of name n: pure until a change command reaches n's record, and then
\* seq is the phones of n's add commands that returned a success message.
LogOf(log, n) == IF n \in DOMAIN log THEN log[n] ELSE Fresh

SetLog(log, n, v) == [m \in DOMAIN log \cup {n} |-> IF m = n THEN v ELSE log[m]]

LogAfter(log, command, args, before, r) ==
    IF command = "add" /\ Len(args) >= 2 /\ r.exc = ""
       /\ r.val \in {"Contact added.", "Contact updated."} /\ LogOf(log, args[1]).pure
    THEN SetLog(log, args[1], [pure |-> TRUE, seq |-> Append(LogOf(log, args[1]).seq, args[2])])
    ELSE IF command = "change" /\ Len(args) >= 3 /\ find(before, args[1]) # 0
    THEN SetLog(log, args[1], [pure |-> FALSE, seq |-> <<>>])
    ELSE log

\* The names first seen with a record, after a turn left the records so.
SeenAfter(order, records) ==
    order \o SelectSeq([i \in 1..Len(records) |-> records[i].key],
                       LAMBDA k : \A j \in 1..Len(order) : order[j] # k)

----------------------------------------------------------------------------
(* main: one action for each branch of the loop body.                      *)

WithinBounds(records) ==
    \A i \in 1..Len(records) : Len(records[i].rec.phones) <= MaxPhones

\* print(handler(args, book)) with the decorated handler's outcome r, then the
\* next turn of the loop; an exception the decorator let through leaves main.
Respond(l, r, now) ==
    /\ WithinBounds(r.book)
    /\ line' = l
    /\ book' = r.book
    /\ today' = now
    /\ addLog' = LogAfter(addLog, Command(l), Args(l), book, r)
    /\ firstAdded' = SeenAfter(firstAdded, r.book)
    /\ IF r.exc = ""
       THEN out' = r.val /\ pc' = "loop" /\ exc' = ""
       ELSE out' = out /\ pc' = "crashed" /\ exc' = r.exc

Close(l) ==
    /\ pc = "loop"
    /\ Command(l) \in {"close", "exit"}
    /\ line' = l
    /\ out' = "Good bye!"
    /\ pc' = "exited"
    /\ today' = None
    /\ UNCHANGED <<book, exc, addLog, firstAdded>>

Hello(l) ==
    /\ pc = "loop"
    /\ Command(l) = "hello"
    /\ Respond(l, Return("How can I help you?", book), None)

Add(l) ==
    /\ pc = "loop"
    /\ Command(l) = "add"
    /\ Respond(l, input_error(add_contact(Args(l), book)), None)

Change(l) ==
    /\ pc = "loop"
    /\ Command(l) = "change"
    /\ Respond(l, input_error(change_phone(Args(l), book)), None)

ShowPhones(l) ==
    /\ pc = "loop"
    /\ Command(l) = "phone"
    /\ Respond(l, input_error(show_phones(Args(l), book)), None)

ShowAll(l) ==
    /\ pc = "loop"
    /\ Command(l) = "all"
    /\ Respond(l, input_error(show_all(Args(l), book)), None)

AddBirthday(l) ==
    /\ pc = "loop"
    /\ Command(l) = "add-birthday"
    /\ Respond(l, input_error(add_birthday(Args(l), book)), None)

ShowBirthday(l) ==
    /\ pc = "loop"
    /\ Command(l) = "show-birthday"
    /\ \E pad \in BOOLEAN :
          Respond(l, input_error(show_birthday(Args(l), book, pad)), None)

Birthdays(l, now) ==
    /\ pc = "loop"
    /\ Command(l) = "birthdays"
    /\ \E pad \in BOOLEAN :
          Respond(l, input_error(birthdays(Args(l), book, now, pad)), now)

Invalid(l) ==
    /\ pc = "loop"
    /\ Command(l) \notin {"close", "exit", "hello", "add", "change", "phone", "all",
                          "add-birthday", "show-birthday", "birthdays"}
    /\ Respond(l, Return("Invalid command.", book), None)

\* The state when main enters its loop.
Init ==
    /\ book = <<>>
    /\ pc = "loop"
    /\ line = ""
    /\ out = "Welcome to the assistant bot!"
    /\ exc = ""
    /\ today = None
    /\ addLog = <<>>
    /\ firstAdded = <<>>

\* One turn of the loop on a line of L, the clock reading one of C.
Turn(L, C) ==
    \/ \E l \in L :
          \/ Close(l) \/ Hello(l) \/ Add(l) \/ Change(l) \/ ShowPhones(l) \/ ShowAll(l)
          \/ AddBirthday(l) \/ ShowBirthday(l) \/ Invalid(l)
    \/ \E l \in L, now \in C : Birthdays(l, now)

Next == Turn(Lines, Clock)

Spec == Init /\ [][Next]_vars

NextB == Turn(LinesB, ClockB)

SpecB == Init /\ [][NextB]_vars

NextD == Turn(LinesD, ClockD)

SpecD == Init /\ [][NextD]_vars

----------------------------------------------------------------------------
(* Vocabulary of the properties, stated on the directory rather than on    *)
(* the code's own helpers.                                                 *)

HasRecord(records, n) == \E i \in 1..Len(records) : records[i].key = n

\* The record stored under n (there is one).
RecordOf(records, n) == records[CHOOSE i \in 1..Len(records) : records[i].key = n].rec

PhonesOf(records, n) == IF HasRecord(records, n) THEN RecordOf(records, n).phones ELSE <<>>

\* Exactly ten characters, each one of 0-9.
TenDigits(p) == Len(p) = 10 /\ \A i \in 1..10 : CharAt(p, i) \in AsciiDigits

RECURSIVE Without(_, _)
\* seq with every entry equal to x taken out.
Without(seq, x) ==
    IF seq = <<>> THEN <<>>
    ELSE IF Head(seq) = x THEN Without(Tail(seq), x)
    ELSE <<Head(seq)>> \o Without(Tail(seq), x)

RECURSIVE Listed(_)
\* The entries of seq separated by ", ".
Listed(seq) ==
    IF seq = <<>> THEN ""
    ELSE IF Len(seq) = 1 THEN seq[1]
    ELSE Listed(SubSeq(seq, 1, Len(seq) - 1)) \o ", " \o seq[Len(seq)]

\* The last turn ran command c with at least k arguments and printed what the
\* handler returned.
Returned(c, k) == pc = "loop" /\ Command(line) = c /\ Len(Args(line)) >= k

\* The commands that look a record up, with the number of arguments each needs.
LookupArity == [c \in {"change", "phone", "add-birthday", "show-birthday"} |->
                  IF c = "change" THEN 3 ELSE IF c = "add-birthday" THEN 2 ELSE 1]

\* The commands that take arguments, with the number each needs.
Arity == [c \in {"add", "change", "phone", "add-birthday", "show-birthday"} |->
            IF c = "change" THEN 3 ELSE IF c \in {"add", "add-birthday"} THEN 2 ELSE 1]

----------------------------------------------------------------------------
(* C1 *)

\* C1: a turn that runs change, phone, add-birthday or show-birthday with enough
\* arguments on a name that has no record prints "Contact not found.", goes on
\* with the loop and leaves the directory as it was.
C1_NotFoundReported ==
    [][ ( /\ Command(line') \in DOMAIN LookupArity
          /\ Len(Args(line')) >= LookupArity[Command(line')]
          /\ ~HasRecord(book, Args(line')[1]) )
        => ( pc' = "loop" /\ out' = "Contact not found." /\ book' = book ) ]_vars

----------------------------------------------------------------------------
(* C2 *)

\* C2: a turn whose command is not close or exit prints the handler's string and
\* goes on with the loop: no exception leaves main.
C2_LoopSurvives ==
    [][ Command(line') \notin {"close", "exit"} => (pc' = "loop" /\ exc' = "") ]_vars

----------------------------------------------------------------------------
(* C3 *)

\* C3: in every reachable state every phone of every record is ten characters,
\* each one of 0-9.
C3_PhonesTenDigits ==
    \A i \in 1..Len(book) :
        \A j \in 1..Len(book[i].rec.phones) : TenDigits(book[i].rec.phones[j])

----------------------------------------------------------------------------
(* C4 *)

\* C4: a turn that runs add with a name and a phone of ten digits prints
\* "Contact added." exactly when the name had no record before it and "Contact
\* updated." exactly when it had one; afterwards the directory holds one record
\* for the name, and its phones are the previous ones (none if new) followed by
\* the new phone.
C4_AddAppends ==
    [][ ( Command(line') = "add" /\ Len(Args(line')) >= 2 /\ TenDigits(Args(line')[2]) )
        => LET n == Args(line')[1]
               p == Args(line')[2]
           IN /\ pc' = "loop"
              /\ (out' = "Contact added.") <=> ~HasRecord(book, n)
              /\ (out' = "Contact updated.") <=> HasRecord(book, n)
              /\ Cardinality({i \in 1..Len(book') : book'[i].key = n}) = 1
              /\ RecordOf(book', n).name = n
              /\ PhonesOf(book', n) = PhonesOf(book, n) \o <<p>> ]_vars

\* An add of a second, different phone to an existing record was reported as an update.
C4_Witness ==
    /\ Returned("add", 2)
    /\ out = "Contact updated."
    /\ PhonesOf(book, Args(line)[1]) = <<"1111111111", "2222222222">>
    /\ Args(line)[2] = "2222222222"

----------------------------------------------------------------------------
(* C5 *)

\* C5: when phone is run for a name whose record no change command has reached,
\* it prints the phones the name's successful add commands gave, in the order
\* of the commands, separated by ", ", one entry for each command; and for a
\* record without phones it prints the empty string.
C5_PhoneListsAdds ==
    (Returned("phone", 1) /\ HasRecord(book, Args(line)[1]))
    => /\ LogOf(addLog, Args(line)[1]).pure
            => out = Listed(LogOf(addLog, Args(line)[1]).seq)
       /\ PhonesOf(book, Args(line)[1]) = <<>> => out = ""

\* phone printed a phone that was added twice, twice.
C5_Witness ==
    /\ Returned("phone", 1)
    /\ LogOf(addLog, Args(line)[1]) = [pure |-> TRUE, seq |-> <<"1111111111", "1111111111">>]
    /\ out = "1111111111, 1111111111"

----------------------------------------------------------------------------
(* C7 *)

\* C7: a turn that runs change N oldPhone newPhone on an existing record N with
\* a newPhone of ten digits prints "Phone number updated." and leaves N's phones
\* the previous ones without the entries equal to oldPhone, followed by newPhone
\* (also when no entry equals oldPhone).
C7_ChangeReplaces ==
    [][ ( /\ Command(line') = "change" /\ Len(Args(line')) >= 3
          /\ HasRecord(book, Args(line')[1]) /\ TenDigits(Args(line')[3]) )
        => /\ pc' = "loop"
           /\ out' = "Phone number updated."
           /\ PhonesOf(book', Args(line')[1])
                = Without(PhonesOf(book, Args(line')[1]), Args(line')[2])
                    \o <<Args(line')[3]>> ]_vars

\* A change of 1111111111 into 2222222222 left the record with the new phone alone.
C7_Witness ==
    /\ Returned("change", 3)
    /\ out = "Phone number updated."
    /\ LogOf(addLog, Args(line)[1]).pure = FALSE
    /\ Args(line)[2] = "1111111111"
    /\ Args(line)[3] = "2222222222"
    /\ PhonesOf(book, Args(line)[1]) = <<"2222222222">>

----------------------------------------------------------------------------
(* C8 *)

\* C8: a turn that runs add, change, phone, add-birthday or show-birthday with
\* fewer arguments than the command needs prints "Insufficient arguments
\* provided." and leaves the directory as it was, whether or not the name given
\* has a record.
C8_TooFewArguments ==
    [][ ( Command(line') \in DOMAIN Arity /\ Len(Args(line')) < Arity[Command(line')] )
        => ( pc' = "loop" /\ out' = "Insufficient arguments provided." /\ book' = book ) ]_vars

\* change with two arguments on a name that has no record was answered so.
C8_Witness ==
    /\ pc = "loop"
    /\ line = "change Bob 1111111111"
    /\ out = "Insufficient arguments provided."
    /\ ~HasRecord(book, "Bob")
    /\ HasRecord(book, "Alice")

----------------------------------------------------------------------------
(* C6 *)

RECURSIVE LinesFrom(_, _, _, _)
LinesFrom(s, i, cur, acc) ==
    IF i > Len(s) THEN Append(acc, cur)
    ELSE IF CharAt(s, i) = "\n" THEN LinesFrom(s, i + 1, "", Append(acc, cur))
    ELSE LinesFrom(s, i + 1, cur \o CharAt(s, i), acc)

\* The lines of a printed text.
TextLines(s) == {LinesFrom(s, 1, "", <<>>)[i] : i \in 1..Len(LinesFrom(s, 1, "", <<>>))}

\* DD.MM.YYYY
DDMMYYYY(d) ==
    ZeroPad(ToStr(d.day), 2) \o "." \o ZeroPad(ToStr(d.month), 2) \o "."
        \o ZeroPad(ToStr(d.year), 4)

\* The birthday d falls on a day of year y.
OccursIn(d, y) == d.day <= DaysInMonth(y, d.month)

\* The days from the day of now to the occurrence of birthday d in now's year.
DaysAhead(d, now) == ToOrdinal([d EXCEPT !.year = now.year]) - ToOrdinal(now)

\* The last turn ran birthdays, and every birthday stored occurs this year.
Listing ==
    /\ pc = "loop"
    /\ Command(line) = "birthdays"
    /\ \A i \in 1..Len(book) :
          book[i].rec.birthday # None => OccursIn(book[i].rec.birthday, today.year)

\* C6: whatever the time of day, birthdays reports a record with a birthday if
\* and only if the birthday's occurrence in the current year is today or one of
\* the 7 days after today.
C6_InclusiveWindow ==
    Listing =>
        \A i \in 1..Len(book) :
            book[i].rec.birthday # None =>
                ( (book[i].rec.name \o " - "
                     \o DDMMYYYY([book[i].rec.birthday EXCEPT !.year = today.year]))
                    \in TextLines(out)
                  <=> DaysAhead(book[i].rec.birthday, today) \in 0..7 )

----------------------------------------------------------------------------
(* C9, C10 *)

\* b is two digits, a dot, two digits, a dot, four digits.
ShapeDDMMYYYY(b) ==
    /\ Len(b) = 10
    /\ \A i \in {1, 2, 4, 5, 7, 8, 9, 10} : CharAt(b, i) \in AsciiDigits
    /\ CharAt(b, 3) = "." /\ CharAt(b, 6) = "."

\* The day, month and year a string of that shape gives.
Denoted(b) ==
    [year |-> ToInt(SubSeq(b, 7, 10)), month |-> ToInt(SubSeq(b, 4, 5)),
     day |-> ToInt(SubSeq(b, 1, 2)), sec |-> 0]

LeapYear(y) == (y % 4 = 0 /\ y % 100 # 0) \/ y % 400 = 0

MonthLength(y, m) ==
    IF m = 2 /\ LeapYear(y) THEN 29
    ELSE <<31, 28, 31, 30, 31, 30, 31, 31, 30, 31, 30, 31>>[m]

\* A day of the calendar: the years run from 0001, there is no year 0000.
RealDate(d) ==
    /\ d.year >= 1
    /\ d.month \in 1..12
    /\ d.day \in 1..MonthLength(d.year, d.month)

\* The turn to come runs command c with at least k arguments on a name that has a record.
OnRecord(c, k) ==
    /\ Command(line') = c
    /\ Len(Args(line')) >= k
    /\ HasRecord(book, Args(line')[1])

\* C9: show-birthday N on an existing record prints "No birthday set." while N
\* has no birthday and the birthday as DD.MM.YYYY once N has one; a successful
\* add-birthday N d makes d the birthday, replacing an earlier one; an
\* add-birthday with an invalid date prints the validation message and leaves
\* the birthday as it was.
C9_BirthdayShown ==
    [][ /\ OnRecord("show-birthday", 1)
          => /\ pc' = "loop"
             /\ book' = book
             /\ out' = IF RecordOf(book, Args(line')[1]).birthday = None
                       THEN "No birthday set."
                       ELSE DDMMYYYY(RecordOf(book, Args(line')[1]).birthday)
        /\ OnRecord("add-birthday", 2)
          => /\ pc' = "loop"
             /\ out' \in {"Birthday added.", "Invalid date format. Use DD.MM.YYYY"}
             /\ (out' = "Birthday added." /\ ShapeDDMMYYYY(Args(line')[2]))
                  => RecordOf(book', Args(line')[1]).birthday = Denoted(Args(line')[2])
             /\ out' = "Invalid date format. Use DD.MM.YYYY" => book' = book ]_vars

\* C10: add-birthday on an existing record accepts a string DD.MM.YYYY if and
\* only if it denotes a day of the calendar (month 1-12, day within the month's
\* length, 29.02 only in a leap year) and then stores that day; a string it
\* rejects gives the validation message and the directory stays as it was.
C10_RealDatesOnly ==
    [][ OnRecord("add-birthday", 2)
        => /\ pc' = "loop"
           /\ ShapeDDMMYYYY(Args(line')[2])
                => /\ (out' = "Birthday added.") <=> RealDate(Denoted(Args(line')[2]))
                   /\ out' = "Birthday added."
                        => RecordOf(book', Args(line')[1]).birthday = Denoted(Args(line')[2])
           /\ out' # "Birthday added."
                => (out' = "Invalid date format. Use DD.MM.YYYY" /\ book' = book) ]_vars

\* 29.02.2024 was accepted and stored.
C10_Witness ==
    /\ pc = "loop"
    /\ line = "add-birthday Alice 29.02.2024"
    /\ out = "Birthday added."
    /\ RecordOf(book, "Alice").birthday = [year |-> 2024, month |-> 2, day |-> 29, sec |-> 0]


----------------------------------------------------------------------------
(* C11 *)

\* The first word of each line in lower case, "" for a blank line.
FirstToken ==
    [l \in AllLines |-> LET w == Split(l) IN IF w = <<>> THEN "" ELSE Lower(w[1])] @@ <<>>

\* C11: a line is read only while the loop runs, so none is read after the
\* loop ended; and a line whose first word is close or exit in any letter
\* case prints the farewell, ends the loop and leaves the directory as it was.
C11_CloseTerminates ==
    [][/\ pc = "loop"
       /\ FirstToken[line'] \in {"close", "exit"}
              => out' = "Good bye!" /\ pc' = "exited" /\ book' = book]_vars

\* The loop ended on EXIT typed in capitals, with two records in the directory.
C11_Witness == pc = "exited" /\ line = "EXIT now" /\ out = "Good bye!" /\ Len(book) = 2

----------------------------------------------------------------------------
(* C12 *)

KeysOf(records) == {records[i].key : i \in 1..Len(records)}

\* No key is stored twice, and each record carries the name it is stored under.
OneRecordPerName(records) ==
    /\ \A i, j \in 1..Len(records) : records[i].key = records[j].key => i = j
    /\ \A i \in 1..Len(records) : records[i].rec.name = records[i].key

\* s is the beginning of t.
IsPrefix(s, t) == Len(s) <= Len(t) /\ SubSeq(t, 1, Len(s)) = s

\* C12: before and after every turn each name has exactly one record, named
\* as its key; every name that had a record keeps one; and add, the one
\* command that makes records, never puts a fresh record in the place of an
\* existing one: the birthday and the phones the record had are still there.
C12_NamesOnlyGrow ==
    [][/\ OneRecordPerName(book)
       /\ OneRecordPerName(book')
       /\ KeysOf(book) \subseteq KeysOf(book')
       /\ Command(line') = "add"
              => \A n \in KeysOf(book) :
                     /\ RecordOf(book', n).birthday = RecordOf(book, n).birthday
                     /\ IsPrefix(RecordOf(book, n).phones, RecordOf(book', n).phones)]_vars

\* Alice, added before Bob, was added again and keeps the phone she had.
C12_Witness ==
    /\ line = "add Alice 2222222222"
    /\ out = "Contact updated."
    /\ Len(book) = 2
    /\ book[1].key = "Alice"
    /\ book[1].rec.phones = <<"1111111111", "2222222222">>
    /\ book[2].rec.phones # <<>>

----------------------------------------------------------------------------
(* C13 *)

\* The text s begins with the text t.
StartsWith(s, t) == Len(t) <= Len(s) /\ SubSeq(s, 1, Len(t)) = t

\* The lines of the text printed last, in the order printed.
OutLines == LinesFrom(out, 1, "", <<>>)

\* C13: all prints one line for each name, the names in the order in which
\* they first had a record; and of two lines that birthdays prints, the upper
\* one is for the name that was added first.
C13_FirstAddedOrder ==
    /\ Returned("all", 0) =>
           IF firstAdded = <<>> THEN out = ""
           ELSE /\ Len(OutLines) = Len(firstAdded)
                /\ \A i \in 1..Len(firstAdded) :
                       OutLines[i] = firstAdded[i] \o ": "
                                        \o Listed(PhonesOf(book, firstAdded[i]))
    /\ Returned("birthdays", 0) =>
           \A k, m \in 1..Len(OutLines) : \A i, j \in 1..Len(firstAdded) :
               ( /\ k < m
                 /\ StartsWith(OutLines[k], firstAdded[i] \o " - ")
                 /\ StartsWith(OutLines[m], firstAdded[j] \o " - ") ) => i < j

\* Bob was added first and was added to again; his birthday is the later one
\* and his name the later in the alphabet, and his line is the upper one.
C13_Witness ==
    /\ Returned("birthdays", 0)
    /\ firstAdded = <<"Bob", "Alice">>
    /\ Len(PhonesOf(book, "Bob")) = 2
    /\ out = "Bob - 17.06.2024\nAlice - 10.06.2024"

----------------------------------------------------------------------------
(* C14 *)

\* The days from the day of now to the occurrence of birthday d in the year
\* after now's.
DaysAheadNextYear(d, now) == ToOrdinal([d EXCEPT !.year = now.year + 1]) - ToOrdinal(now)

\* C14: when birthdays runs in the last 7 days of December, no line is
\* printed for a record whose birthday falls in January fewer than 7 days
\* after today.
C14_NoRollOver ==
    ( /\ Returned("birthdays", 0)
      /\ today.month = 12
      /\ today.day >= 25 ) =>
        \A i \in 1..Len(book) :
            ( /\ book[i].rec.birthday # None
              /\ book[i].rec.birthday.month = 1
              /\ DaysAheadNextYear(book[i].rec.birthday, today) < 7 ) =>
                \A k \in 1..Len(OutLines) :
                    ~StartsWith(OutLines[k], book[i].rec.name \o " - ")

\* birthdays ran on 29 December with Alice's birthday on 2 January, 4 days on.
C14_Witness ==
    /\ Returned("birthdays", 0)
    /\ today.month = 12 /\ today.day = 29
    /\ HasRecord(book, "Alice")
    /\ RecordOf(book, "Alice").birthday = [year |-> 1990, month |-> 1, day |-> 2, sec |-> 0]
    /\ DaysAheadNextYear(RecordOf(book, "Alice").birthday, today) = 4
    /\ out = "No upcoming birthdays."

----------------------------------------------------------------------------
(* C15, C16 *)

\* C15: an add for a name without a record that is answered with the phone
\* validation message leaves the directory as it was: the name still has no
\* record.
C15_FailedAddChangesNothing ==
    [][( /\ Command(line') = "add"
         /\ Len(Args(line')) >= 2
         /\ ~HasRecord(book, Args(line')[1])
         /\ pc' = "loop"
         /\ out' = "Phone number must be 10 digits." )
          => book' = book /\ ~HasRecord(book', Args(line')[1])]_vars

\* C16: a change on an existing record that is answered with the phone
\* validation message leaves the record's phones the sequence they were.
C16_FailedChangeChangesNothing ==
    [][( /\ Command(line') = "change"
         /\ Len(Args(line')) >= 3
         /\ HasRecord(book, Args(line')[1])
         /\ pc' = "loop"
         /\ out' = "Phone number must be 10 digits." )
          => RecordOf(book', Args(line')[1]).phones
                = RecordOf(book, Args(line')[1]).phones]_vars

----------------------------------------------------------------------------
(* C17 *)

\* The line birthdays prints for the record at place i of the directory.
ReportLine(i) ==
    book[i].rec.name \o " - " \o DDMMYYYY([book[i].rec.birthday EXCEPT !.year = today.year])

\* C17: whatever the records and the year, birthdays prints either "No
\* upcoming birthdays." or only lines "name - DD.MM.YYYY" of records whose
\* birthday occurs this year; and every record whose occurrence is 1 to 7
\* days ahead has its line, whatever the other records' birthdays are.
C17_BirthdaysAlwaysLists ==
    Returned("birthdays", 0) =>
        /\ \/ out = "No upcoming birthdays."
           \/ \A k \in 1..Len(OutLines) : \E i \in 1..Len(book) :
                  /\ book[i].rec.birthday # None
                  /\ OccursIn(book[i].rec.birthday, today.year)
                  /\ OutLines[k] = ReportLine(i)
        /\ \A i \in 1..Len(book) :
              ( /\ book[i].rec.birthday # None
                /\ OccursIn(book[i].rec.birthday, today.year)
                /\ DaysAhead(book[i].rec.birthday, today) \in 1..7 )
                  => ReportLine(i) \in TextLines(out)

----------------------------------------------------------------------------
(* C18 *)

\* The commands that write to a record.
Writers == {"add", "change", "add-birthday"}

\* C18: in every turn a record other than the one named by the first
\* argument of add, change or add-birthday stays as it was; add and change
\* leave the named record's birthday, add-birthday leaves its phones; and
\* phone, all, show-birthday, birthdays, hello and unknown commands leave the
\* whole directory as it was.
C18_Frame ==
    [][LET c == Command(line')
           a == Args(line')
       IN /\ \A n \in KeysOf(book) :
                 (c \notin Writers \/ a = <<>> \/ n # a[1]) =>
                     HasRecord(book', n) /\ RecordOf(book', n) = RecordOf(book, n)
          /\ (c \in {"add", "change"} /\ a # <<>> /\ HasRecord(book, a[1])) =>
                 /\ HasRecord(book', a[1])
                 /\ RecordOf(book', a[1]).birthday = RecordOf(book, a[1]).birthday
          /\ (c = "add-birthday" /\ a # <<>> /\ HasRecord(book, a[1])) =>
                 /\ HasRecord(book', a[1])
                 /\ RecordOf(book', a[1]).phones = RecordOf(book, a[1]).phones
          /\ c \notin Writers \cup {"close", "exit"} => book' = book]_vars

\* Alice, who has a phone, was given a birthday while Bob has a phone and a
\* birthday of his own.
C18_Witness ==
    /\ line = "add-birthday Alice 17.06.1990"
    /\ out = "Birthday added."
    /\ pc = "loop"
    /\ PhonesOf(book, "Alice") = <<"1111111111">>
    /\ PhonesOf(book, "Bob") = <<"1111111111">>
    /\ RecordOf(book, "Bob").birthday = [year |-> 1990, month |-> 6, day |-> 10, sec |-> 0]
====
